---- MODULE Spec2Model ----
(***************************************************************************)
(* aioeffect: the asyncio bridge of the Effect library.                    *)
(*                                                                         *)
(* The model follows src/aioeffect/__init__.py: future_to_box and its      *)
(* done_cb, the performer decorator's asyncio_wrapper, perform_delay and   *)
(* perform.  The event loop (ready queue, timers, clock), asyncio.Future   *)
(* and asyncio.Task are modelled by what the calls of the source do on     *)
(* them.  The Effect engine (Box, the callback chain run under guard) and  *)
(* the parallel performer live in the effect library, outside src/; they   *)
(* are modelled from the specification's sections 3, 4.4 and 4.5.          *)
(***************************************************************************)
EXTENDS Integers, Sequences, FiniteSets, TLC

\* ------------------------------------------------------------------ bounds
MaxSub == 2        \* sub-effects of one ParallelEffects
MaxDelay == 2      \* largest sleep, in clock units
MaxSubDelay == 1   \* largest sleep inside a parallel group
MaxBoxCalls == 2   \* invocations a hand-written performer makes on its box
MaxFairSub == 1    \* sub-effects of a group in the runs that check liveness
MaxArgs == 2       \* positional arguments before the box in a call made by hand

\* ------------------------------------------------------------ Python values
None == [t |-> "none"]
Str(s) == [t |-> "str", s |-> s]
List(items) == [t |-> "list", items |-> items]
\* An exception instance; id is the object's identity (0: an instance the
\* platform created itself).
Exc(cls, id) == [t |-> "exc", cls |-> cls, id |-> id]
NoExc == [t |-> "noexc"]
\* sys.exc_info() while `inst` is being handled: (type, value, traceback).
Class(cls) == [t |-> "class", cls |-> cls]
ExcInfo(inst) ==
    [t |-> "exc_info", type |-> Class(inst.cls), value |-> inst, traceback |-> "tb"]
CancelledError == Exc("CancelledError", 0)
InvalidStateError == Exc("InvalidStateError", 0)
\* What get_event_loop() / create_task raise when there is no usable loop.
SchedulingError == Exc("RuntimeError", 0)
\* effect.FirstError(exc_info=result, index=index)
FirstError(exc_info, index) ==
    [t |-> "exc", cls |-> "FirstError", id |-> 0, exc_info |-> exc_info, index |-> index]

\* The clock is followed one unit past the longest sleep.
MaxTime == MaxDelay + 1

Values == {Str("a"), Str("b")}
\* A dispatcher, and a reference to the completion box `id`.
Dispatcher == [t |-> "dispatcher"]
BoxRef(id) == [t |-> "box", id |-> id]
Errors == {Exc("ValueError", 1), Exc("RuntimeError", 2)}
\* What a box raises from inside its succeed / fail when it is a bad one.
SucceedBug == Exc("SucceedBug", 3)
FailBug == Exc("FailBug", 4)

\* ------------------------------------------------------------ the scenario
\* The body of a wrapped async function: it may await sleep(delay) once, then
\* returns val or raises it.
Plans ==
    [awaits : {FALSE}, delay : {0}, out : {"return"}, val : Values]
      \cup [awaits : {FALSE}, delay : {0}, out : {"raise"}, val : Errors]
      \cup [awaits : {TRUE}, delay : 0..MaxDelay, out : {"return"}, val : Values \cup {None}]
      \cup [awaits : {TRUE}, delay : 0..MaxDelay, out : {"raise"}, val : Errors]

\* perform_delay(dispatcher, delay): return sleep(delay.delay)
perform_delay_zero(delay) == [awaits |-> TRUE, delay |-> 0, out |-> "return", val |-> None]
perform_delay(delay) == [awaits |-> TRUE, delay |-> delay, out |-> "return", val |-> None]

LeafIntents ==
    [kind : {"Delay"}, delay : 0..MaxDelay] \cup [kind : {"Async"}, plan : Plans]

\* Sub-effects of a parallel group: each suspends once, so that completions
\* interleave.
SubIntents ==
    {i \in LeafIntents :
        /\ i.kind = "Async" /\ i.plan.awaits /\ i.plan.delay <= MaxSubDelay
        /\ i.plan.val \in Values \cup Errors}

SeqsUpTo(S, n) == UNION {[1..k -> S] : k \in 0..n}

Intents ==
    {[kind |-> "Func"]} \cup LeafIntents
      \cup {[kind |-> "Parallel", effects |-> es] : es \in SeqsUpTo(SubIntents, MaxSub)}

\* make_asyncio_dispatcher(): the TypeDispatcher's entry for an intent of this
\* kind; the other kinds go to the performers the caller's dispatcher names.
make_asyncio_dispatcher(kind) ==
    CASE kind = "Parallel" -> "perform_parallel_async"
      [] kind = "Delay" -> "perform_delay"
      [] OTHER -> "none"

\* The coroutine the decorated performer registered for `i` runs.
Coro(i) ==
    IF make_asyncio_dispatcher(i.kind) = "perform_delay"
    THEN perform_delay(i.delay) ELSE i.plan

\* What a call of the wrapper made by hand passes before the box, and the
\* keyword arguments a dispatcher binds with partial(p, extra='extra val').
ArgValues == {Dispatcher, BoxRef(1)}
Kwargs == {{}, {[key |-> "extra", val |-> Str("extra val")]}}

\* The task and the box of a second perform call on the same effect.
Again == MaxSub + 1

TaskIds == 1..Again
BoxIds == 0..Again

VARIABLES
    mode,        \* "perform": through perform(); "direct": the decorated performer called with a caller's box
    intent,      \* effect.intent
    callbacks,   \* effect.callbacks, before perform attaches its own
    box_raises,  \* direct mode: whether the caller's box raises in succeed / in fail
    call_args,   \* the positional arguments the top-level performer is called with, before the box
    call_kwargs, \* the keyword arguments it is called with
    loop_ok,     \* whether get_event_loop().create_task(...) can schedule a task
    pc,          \* "start" | "running"
    pc2,         \* the same for a second perform call on the same effect
    now,         \* loop.time()
    t0,          \* loop.time() when perform was called
    fut,         \* the Future perform returns
    futlog,      \* every set_result / set_exception made on fut, in order
    fut2,        \* the Future the second perform call returns
    futlog2,     \* every set_result / set_exception made on fut2, in order
    eff,         \* per top-level box, the callbacks of the effect the engine was run on
    tasks,       \* the tasks asyncio_wrapper created
    ready,       \* the loop's FIFO of callbacks to run (call_soon)
    timers,      \* the loop's scheduled timer handles (call_later)
    calls,       \* per box, every succeed / fail invocation, in order
    par,         \* the parallel performer's results, count and outcome flag
    called,      \* the list the effect's own success callback appends to
    escaped,     \* exceptions that left a loop callback (the loop's exception handler saw them)
    completed,   \* task ids in the order the tasks finished
    engine_runs, \* how many times perform has called the engine (base_perform)
    propagated   \* what the call of the entry point raised to its caller

vars == <<mode, intent, callbacks, box_raises, call_args, call_kwargs, loop_ok, pc, pc2,
          now, t0, fut, futlog, fut2, futlog2, eff, tasks,
          ready, timers, calls, par, called, escaped, completed, engine_runs,
          propagated>>

\* What only the entry points (perform, a direct call) change.
entry == <<engine_runs, propagated>>

scenario == <<mode, intent, callbacks, box_raises, call_args, call_kwargs, loop_ok>>
\* The scenario without the effect's callbacks, which perform hands to effect.on.
call_site == <<mode, intent, box_raises, call_args, call_kwargs, loop_ok>>

\* args, kwargs: what the wrapped function was called with; cbs: the task's
\* done callbacks, each a done_cb bound to the box named; notified: the done
\* callbacks have been run.
NoTask ==
    [st |-> "none", must_cancel |-> FALSE, result |-> None, exception |-> NoExc,
     cbs |-> <<>>, notified |-> FALSE, args |-> <<>>, kwargs |-> {}]

NSub == IF intent.kind = "Parallel" THEN Len(intent.effects) ELSE 0

\* The tasks this scenario creates, and the coroutine and box of each.
Live == IF intent.kind = "Parallel" THEN 1..NSub
        ELSE IF intent.kind = "Func" THEN {} ELSE {1}
PlanOf(t) == IF intent.kind = "Parallel" THEN Coro(intent.effects[t]) ELSE Coro(intent)
\* The box the performer that creates task t is called with.
BoxOf(t) == IF intent.kind = "Parallel" \/ t = Again THEN t ELSE 0
\* The call of that performer: performer(dispatcher, intent, box) by the
\* engine, with the keyword arguments a partial application bound.
ArgsOf(t) ==
    IF intent.kind = "Parallel" THEN <<Dispatcher, intent.effects[t], BoxRef(t)>>
    ELSE Append(call_args, BoxRef(BoxOf(t)))
KwargsOf(t) == IF intent.kind = "Parallel" THEN {} ELSE call_kwargs

Init ==
    /\ mode \in {"perform", "direct"}
    /\ intent \in Intents
    /\ mode = "direct" => intent \in LeafIntents
    /\ callbacks \in {<<>>, <<"append">>}
    /\ mode = "direct" \/ intent.kind = "Parallel" => callbacks = <<>>
    /\ box_raises \in [succeed : BOOLEAN, fail : BOOLEAN]
    /\ mode = "perform" => box_raises = [succeed |-> FALSE, fail |-> FALSE]
    /\ call_args \in SeqsUpTo(ArgValues, MaxArgs) \cup {<<Dispatcher, intent>>}
    /\ mode = "perform" => call_args = <<Dispatcher, intent>>
    /\ call_kwargs \in Kwargs
    /\ intent.kind # "Async" => call_kwargs = {}
    /\ loop_ok \in BOOLEAN
    /\ mode = "perform" => loop_ok
    /\ pc = "start"
    /\ pc2 = "start"
    /\ now = 0
    /\ t0 = 0
    /\ fut = [state |-> "none", result |-> None, exception |-> NoExc]
    /\ futlog = <<>>
    /\ fut2 = [state |-> "none", result |-> None, exception |-> NoExc]
    /\ futlog2 = <<>>
    /\ eff = [b \in {0, Again} |-> <<>>]
    /\ tasks = [t \in TaskIds |-> NoTask]
    /\ ready = <<>>
    /\ timers = {}
    /\ calls = [b \in BoxIds |-> <<>>]
    /\ par = [results |-> <<>>, count |-> 0, done |-> FALSE]
    /\ called = <<>>
    /\ escaped = <<>>
    /\ completed = <<>>
    /\ engine_runs = 0
    /\ propagated = NoExc

\* ------------------------------------------------- asyncio.Future (of perform)
\* The part of the state a box invocation can reach.
World ==
    [fut |-> fut, futlog |-> futlog, fut2 |-> fut2, futlog2 |-> futlog2, eff |-> eff,
     called |-> called, par |-> par, calls |-> calls]

Done(f) == f.state \in {"result", "exception", "cancelled"}

set_result_overwrites(w, v) ==
    [w |-> [w EXCEPT !.fut = [state |-> "result", result |-> v, exception |-> NoExc],
                     !.futlog = Append(@, [op |-> "set_result", arg |-> v, ok |-> TRUE])],
     raised |-> NoExc]

\* Future.set_result(v): InvalidStateError unless the future is pending.
set_result(w, v) ==
    IF w.fut.state # "pending"
    THEN [w |-> [w EXCEPT !.futlog = Append(@, [op |-> "set_result", arg |-> v, ok |-> FALSE])],
          raised |-> InvalidStateError]
    ELSE [w |-> [w EXCEPT !.fut = [state |-> "result", result |-> v, exception |-> NoExc],
                          !.futlog = Append(@, [op |-> "set_result", arg |-> v, ok |-> TRUE])],
          raised |-> NoExc]

\* Future.set_exception(x): InvalidStateError unless pending; a class is
\* instantiated, an instance is stored as it is.
set_exception(w, x) ==
    IF w.fut.state # "pending"
    THEN [w |-> [w EXCEPT !.futlog = Append(@, [op |-> "set_exception", arg |-> x, ok |-> FALSE])],
          raised |-> InvalidStateError]
    ELSE LET inst == IF x.t = "class" THEN Exc(x.cls, 0) ELSE x
         IN [w |-> [w EXCEPT !.fut = [state |-> "exception", result |-> None, exception |-> inst],
                             !.futlog = Append(@, [op |-> "set_exception", arg |-> x, ok |-> TRUE])],
             raised |-> NoExc]

\* ------------------------------------------------------------------ perform
Future_done == [state |-> "result", result |-> None, exception |-> NoExc]

\* fut = Future(): a new future, pending.
Future == [state |-> "pending", result |-> None, exception |-> NoExc]

\* The continuations perform attaches: success=fut.set_result and
\* error=lambda e: fut.set_exception(e[1]).
perform_success_none(w, v) == set_result(w, None)
perform_success(w, v) == set_result(w, v)
perform_error_type(w, e) == set_exception(w, e.type)
perform_error_missing(w, e) == [w |-> w, raised |-> NoExc]
perform_error(w, e) == set_exception(w, e.value)

Final_shared(b) == "final"

\* Each call of perform makes its own Future and attaches that Future's
\* set_result and set_exception: the pair attached in the call that got box b.
Final(b) == IF b = Again THEN "final2" ELSE "final"

\* The same state seen from the second call, whose `fut` is fut2.
Swap(w) ==
    [w EXCEPT !.fut = w.fut2, !.futlog = w.futlog2, !.fut2 = w.fut, !.futlog2 = w.futlog]

\* One of the pairs run on a result.
final(w, cb, is_error, value) ==
    LET w1 == IF cb = "final2" THEN Swap(w) ELSE w
        r == IF is_error THEN perform_error(w1, value) ELSE perform_success(w1, value)
    IN [w |-> IF cb = "final2" THEN Swap(r.w) ELSE r.w, raised |-> r.raised]

\* ------------------------------------------------- the Effect engine (effect)
\* A variant of on that appends to the Effect it is called on.
on_in_place(cbs, cb) == [self |-> Append(cbs, cb), new |-> Append(cbs, cb)]

\* Effect.on(success, error): a new Effect with the pair appended; the Effect
\* it is called on stays as it was.
on(cbs, cb) == [self |-> cbs, new |-> Append(cbs, cb)]

\* effect.perform's _run_callbacks: each callback runs under guard, so what a
\* callback raises becomes the next error result and never reaches the caller
\* of the box.  "append" is the effect's own success callback (called.append,
\* which returns None); "final" and "final2" are the pairs perform attached.
RECURSIVE run_callbacks(_, _, _, _)
run_callbacks(w, chain, is_error, value) ==
    IF chain = <<>> THEN w
    ELSE IF Head(chain) = "append"
    THEN IF is_error
         THEN run_callbacks(w, Tail(chain), TRUE, value)
         ELSE run_callbacks([w EXCEPT !.called = Append(@, value)], Tail(chain), FALSE, None)
    ELSE LET r == final(w, Head(chain), is_error, value)
         IN run_callbacks(r.w, Tail(chain),
                          r.raised # NoExc,
                          IF r.raised # NoExc THEN ExcInfo(r.raised) ELSE None)

Logged(w, b, op, arg, raised) ==
    [w EXCEPT !.calls[b] = Append(@, [op |-> op, arg |-> arg, raised |-> raised])]

\* Box 0, the box of the top-level performer.  Through perform it is the
\* engine's box, which runs the effect's callback chain and raises nothing;
\* in a direct call it is the caller's own object, which may raise.
TopBox(w, op, arg) ==
    IF mode = "direct"
    THEN LET x == IF op = "succeed" /\ box_raises.succeed THEN SucceedBug
                  ELSE IF op = "fail" /\ box_raises.fail THEN FailBug
                  ELSE NoExc
         IN [w |-> Logged(w, 0, op, arg, x), raised |-> x]
    ELSE [w |-> run_callbacks(Logged(w, 0, op, arg, NoExc), w.eff[0], op = "fail", arg),
          raised |-> NoExc]

\* The engine's box of the second perform call.
AgainBox(w, op, arg) ==
    [w |-> run_callbacks(Logged(w, Again, op, arg, NoExc), w.eff[Again], op = "fail", arg),
     raised |-> NoExc]

\* ------------------------------------- the parallel performer (effect.async)
\* succeed(index, result): fill the slot; the group succeeds with the slots in
\* submission order once every slot is filled.
par_succeed(w, index, result) ==
    LET p == [w.par EXCEPT !.results[index] = result, !.count = @ + 1]
        w1 == [w EXCEPT !.par = p]
    IN IF p.count = NSub /\ ~p.done
       THEN TopBox([w1 EXCEPT !.par.done = TRUE], "succeed", List(p.results)).w
       ELSE w1

par_fail_every(w, index, e) ==
    TopBox([w EXCEPT !.par.done = TRUE], "fail", ExcInfo(FirstError(e, index))).w

\* fail(index, exc_info): the first failure to complete is the group's outcome;
\* later ones are ignored.
par_fail(w, index, e) ==
    IF w.par.done THEN w
    ELSE TopBox([w EXCEPT !.par.done = TRUE], "fail",
                ExcInfo(FirstError(e, index))).w

\* The engine's box of sub-effect `b`: its chain is the pair the parallel
\* performer attached.
SlotBox(w, b, op, arg) ==
    LET w1 == Logged(w, b, op, arg, NoExc)
    IN [w |-> IF op = "succeed" THEN par_succeed(w1, b, arg) ELSE par_fail(w1, b, arg),
        raised |-> NoExc]

Box(w, b, op, arg) ==
    IF b = 0 THEN TopBox(w, op, arg)
    ELSE IF b = Again THEN AgainBox(w, op, arg)
    ELSE SlotBox(w, b, op, arg)

\* ------------------------------------------------------------ future_to_box
\* Variants of done_cb with one slip each.
SucceedOrFail(w, b, v) ==
    LET r1 == Box(w, b, "succeed", v)
    IN IF r1.raised = NoExc
       THEN [w |-> r1.w, escaped |-> NoExc]
       ELSE LET r2 == Box(r1.w, b, "fail", ExcInfo(r1.raised))
            IN [w |-> r2.w, escaped |-> r2.raised]

FailOnly(w, b, x) ==
    LET r2 == Box(w, b, "fail", ExcInfo(x))
    IN [w |-> r2.w, escaped |-> r2.raised]

done_cb_passes_future(w, t, b) ==
    IF tasks[t].st = "finished"
    THEN SucceedOrFail(w, b, [t |-> "future", task |-> t])
    ELSE FailOnly(w, b,
                  IF tasks[t].st = "cancelled" THEN CancelledError ELSE tasks[t].exception)

done_cb_except_runtime_error(w, t, b) ==
    IF tasks[t].st = "finished"
    THEN SucceedOrFail(w, b, tasks[t].result)
    ELSE IF tasks[t].st = "failed" /\ tasks[t].exception.cls = "RuntimeError"
    THEN FailOnly(w, b, tasks[t].exception)
    ELSE [w |-> w,
          escaped |-> IF tasks[t].st = "cancelled" THEN CancelledError
                      ELSE tasks[t].exception]

done_cb_except_exception(w, t, b) ==
    LET tk == tasks[t]
    IN IF tk.st = "finished"
       THEN LET r1 == Box(w, b, "succeed", tk.result)
            IN IF r1.raised = NoExc
               THEN [w |-> r1.w, escaped |-> NoExc]
               ELSE LET r2 == Box(r1.w, b, "fail", ExcInfo(r1.raised))
                    IN [w |-> r2.w, escaped |-> r2.raised]
       ELSE IF tk.st = "cancelled"
       THEN [w |-> w, escaped |-> CancelledError]
       ELSE LET r2 == Box(w, b, "fail", ExcInfo(tk.exception))
            IN [w |-> r2.w, escaped |-> r2.raised]

done_cb_ignores_cancelled(w, t, b) ==
    IF tasks[t].st = "finished" THEN SucceedOrFail(w, b, tasks[t].result)
    ELSE IF tasks[t].st = "cancelled" THEN [w |-> w, escaped |-> NoExc]
    ELSE FailOnly(w, b, tasks[t].exception)

\* done_cb(fut): try: box.succeed(fut.result()) / except: box.fail(sys.exc_info()).
\* fut.result() raises the task's exception, or CancelledError.  `escaped` is
\* what leaves done_cb.
done_cb(w, t, b) ==
    LET tk == tasks[t]
    IN IF tk.st = "finished"
       THEN LET r1 == Box(w, b, "succeed", tk.result)
            IN IF r1.raised = NoExc
               THEN [w |-> r1.w, escaped |-> NoExc]
               ELSE LET r2 == Box(r1.w, b, "fail", ExcInfo(r1.raised))
                    IN [w |-> r2.w, escaped |-> r2.raised]
       ELSE LET x == IF tk.st = "cancelled" THEN CancelledError ELSE tk.exception
                r2 == Box(w, b, "fail", ExcInfo(x))
            IN [w |-> r2.w, escaped |-> r2.raised]

SetWorld(w) ==
    /\ fut' = w.fut
    /\ futlog' = w.futlog
    /\ fut2' = w.fut2
    /\ futlog2' = w.futlog2
    /\ eff' = w.eff
    /\ called' = w.called
    /\ par' = w.par
    /\ calls' = w.calls

\* --------------------------------------------------------------- the loop
\* A callback in the loop's queue; box is the box a done_cb is bound to.
Handle(cb, t, b) == [cb |-> cb, task |-> t, box |-> b]
Step(t) == Handle("step", t, 0)

\* future_to_box(fut, box): fut.add_done_callback(done_cb), with done_cb bound
\* to box (box.asyncio_future = fut only lets the box's holder reach the task).
future_to_box(tk, box) == [tk EXCEPT !.cbs = Append(@, box)]

asyncio_wrapper_drops_kwargs(st, t, args, kwargs) ==
    LET pass_args == SubSeq(args, 1, Len(args) - 1)
        box == args[Len(args)]
        task == [NoTask EXCEPT !.st = "pending", !.args = pass_args]
    IN IF ~loop_ok THEN [st EXCEPT !.raised = SchedulingError]
       ELSE [st EXCEPT !.tasks[t] = future_to_box(task, box.id),
                       !.ready = Append(@, Step(t))]

asyncio_wrapper_swallows(st, t, args, kwargs) ==
    LET pass_args == SubSeq(args, 1, Len(args) - 1)
        box == args[Len(args)]
        task == [NoTask EXCEPT !.st = "pending", !.args = pass_args, !.kwargs = kwargs]
    IN IF ~loop_ok THEN st
       ELSE [st EXCEPT !.tasks[t] = future_to_box(task, box.id),
                       !.ready = Append(@, Step(t))]

asyncio_wrapper_runs_now(st, t, args, kwargs) ==
    LET pass_args == SubSeq(args, 1, Len(args) - 1)
        box == args[Len(args)]
        task == [NoTask EXCEPT !.st = "pending", !.args = pass_args, !.kwargs = kwargs]
    IN IF ~loop_ok THEN [st EXCEPT !.raised = SchedulingError]
       ELSE IF ~PlanOf(t).awaits /\ PlanOf(t).out = "return"
       THEN [st EXCEPT !.tasks[t] = [future_to_box(task, box.id) EXCEPT
                                        !.st = "finished", !.result = PlanOf(t).val,
                                        !.notified = TRUE],
                       !.w = Box(st.w, box.id, "succeed", PlanOf(t).val).w]
       ELSE [st EXCEPT !.tasks[t] = future_to_box(task, box.id),
                       !.ready = Append(@, Step(t))]

\* performer's asyncio_wrapper(*args, **kwargs): *pass_args, box = args;
\* create_task(f(*pass_args, **kwargs)) makes task t and schedules its first
\* step; future_to_box(task, box).  Nothing is run during the call, so the
\* state a box can reach (st.w) is left as it is.  What
\* get_event_loop() or create_task raises leaves the wrapper before
\* future_to_box is reached.
asyncio_wrapper(st, t, args, kwargs) ==
    LET pass_args == SubSeq(args, 1, Len(args) - 1)
        box == args[Len(args)]
        task == [NoTask EXCEPT !.st = "pending", !.args = pass_args, !.kwargs = kwargs]
    IN IF ~loop_ok THEN [st EXCEPT !.raised = SchedulingError]
       ELSE [st EXCEPT !.tasks[t] = future_to_box(task, box.id),
                       !.ready = Append(@, Step(t))]

\* The engine performs each effect in turn, calling the decorated performer
\* of each with the effect's box.
RECURSIVE perform_each(_, _)
perform_each(st, ts) ==
    IF ts = <<>> THEN st
    ELSE perform_each(asyncio_wrapper(st, Head(ts), ArgsOf(Head(ts)), KwargsOf(Head(ts))),
                      Tail(ts))

\* perform(dispatcher, effect): fut = Future(); the engine is run once on the
\* effect with perform's continuations attached; it calls the performer of the
\* intent with a box.  A Func intent only keeps its box; a ParallelEffects
\* performs every sub-effect in submission order (an empty one succeeds with []
\* at once).
perform ==
    /\ pc = "start"
    /\ mode = "perform"
    /\ pc' = "running"
    /\ t0' = now
    /\ engine_runs' = engine_runs + 1
    /\ LET e == on(callbacks, Final(0))
           w0 == [World EXCEPT !.fut = Future, !.eff[0] = e.new,
                               !.par.results = [i \in 1..NSub |-> None]]
           order == [i \in 1..Cardinality(Live) |-> i]
           st == perform_each([tasks |-> tasks, ready |-> ready, raised |-> propagated,
                               w |-> w0], order)
       IN /\ tasks' = st.tasks
          /\ ready' = st.ready
          /\ propagated' = st.raised
          /\ callbacks' = e.self
          /\ IF make_asyncio_dispatcher(intent.kind) = "perform_parallel_async" /\ NSub = 0
             THEN SetWorld(TopBox([st.w EXCEPT !.par.done = TRUE], "succeed", List(<<>>)).w)
             ELSE SetWorld(st.w)
    /\ UNCHANGED <<call_site, pc2, now, timers, escaped, completed>>

\* perform called a second time on the same effect, at any later moment: a
\* Future, a box and (for a Delay) a task of its own.
perform_again ==
    /\ pc = "running"
    /\ pc2 = "start"
    /\ mode = "perform"
    /\ intent.kind \in {"Func", "Delay"}
    /\ callbacks = <<>>
    /\ pc2' = "running"
    /\ engine_runs' = engine_runs + 1
    /\ LET e == on(callbacks, Final(Again))
           w0 == [World EXCEPT !.fut2 = Future, !.eff[Again] = e.new]
           st == perform_each([tasks |-> tasks, ready |-> ready, raised |-> propagated,
                               w |-> w0], IF Live = {} THEN <<>> ELSE <<Again>>)
       IN /\ tasks' = st.tasks
          /\ ready' = st.ready
          /\ propagated' = st.raised
          /\ callbacks' = e.self
          /\ SetWorld(st.w)
    /\ UNCHANGED <<call_site, pc, t0, now, timers, escaped, completed>>

\* The decorated performer called by hand with the caller's own box.
DirectCall ==
    /\ pc = "start"
    /\ mode = "direct"
    /\ pc' = "running"
    /\ t0' = now
    /\ LET st == asyncio_wrapper([tasks |-> tasks, ready |-> ready, raised |-> propagated,
                                  w |-> World], 1, ArgsOf(1), KwargsOf(1))
       IN /\ tasks' = st.tasks /\ ready' = st.ready /\ propagated' = st.raised
          /\ SetWorld(st.w)
    /\ UNCHANGED <<scenario, engine_runs, pc2, now, timers, escaped, completed>>

\* A hand-written performer (the tests' func_dispatcher) invokes the box it
\* was handed.
FuncSucceed(v) ==
    /\ pc = "running"
    /\ intent.kind = "Func"
    /\ Len(calls[0]) < MaxBoxCalls
    /\ SetWorld(TopBox(World, "succeed", v).w)
    /\ UNCHANGED <<scenario, entry, pc, pc2, now, t0, tasks, ready, timers, escaped, completed>>

FuncFail(x) ==
    /\ pc = "running"
    /\ intent.kind = "Func"
    /\ Len(calls[0]) < MaxBoxCalls
    /\ SetWorld(TopBox(World, "fail", ExcInfo(x)).w)
    /\ UNCHANGED <<scenario, entry, pc, pc2, now, t0, tasks, ready, timers, escaped, completed>>

\* The same performer invokes the box the second perform call handed it.
FuncSucceedAgain(v) ==
    /\ pc2 = "running"
    /\ intent.kind = "Func"
    /\ Len(calls[Again]) < MaxBoxCalls
    /\ SetWorld(AgainBox(World, "succeed", v).w)
    /\ UNCHANGED <<scenario, entry, pc, pc2, now, t0, tasks, ready, timers, escaped, completed>>

FuncFailAgain(x) ==
    /\ pc2 = "running"
    /\ intent.kind = "Func"
    /\ Len(calls[Again]) < MaxBoxCalls
    /\ SetWorld(AgainBox(World, "fail", ExcInfo(x)).w)
    /\ UNCHANGED <<scenario, entry, pc, pc2, now, t0, tasks, ready, timers, escaped, completed>>

\* The task's coroutine ends: Task.set_result / set_exception / cancel, each of
\* which schedules the task's done callbacks with call_soon.
Finish(t, st, result, exception) ==
    /\ tasks' = [tasks EXCEPT ![t] = [@ EXCEPT !.st = st, !.must_cancel = FALSE,
                                               !.result = result,
                                               !.exception = exception]]
    /\ ready' = Tail(ready) \o [k \in 1..Len(tasks[t].cbs) |->
                                   Handle("done_cb", t, tasks[t].cbs[k])]
    /\ completed' = Append(completed, t)
    /\ UNCHANGED timers

Return(t) ==
    IF PlanOf(t).out = "return"
    THEN Finish(t, "finished", PlanOf(t).val, NoExc)
    ELSE Finish(t, "failed", None, PlanOf(t).val)

\* Task.__step, run by the loop.  A cancel request throws CancelledError into
\* the coroutine, which ends the task cancelled.  The first step runs the
\* wrapped function up to its await: sleep(d) with d <= 0 yields once, a
\* positive d sets a timer d clock units ahead.
RunStep ==
    /\ ready # <<>>
    /\ Head(ready).cb = "step"
    /\ LET t == Head(ready).task
           tk == tasks[t]
           p == PlanOf(t)
       IN IF tk.must_cancel
          THEN Finish(t, "cancelled", None, NoExc)
          ELSE IF tk.st = "pending" /\ p.awaits
          THEN IF p.delay <= 0
               THEN /\ tasks' = [tasks EXCEPT ![t].st = "woken"]
                    /\ ready' = Append(Tail(ready), Step(t))
                    /\ UNCHANGED <<timers, completed>>
               ELSE /\ tasks' = [tasks EXCEPT ![t].st = "sleeping"]
                    /\ timers' = timers \cup {[when |-> now + p.delay, task |-> t]}
                    /\ ready' = Tail(ready)
                    /\ UNCHANGED completed
          ELSE Return(t)
    /\ UNCHANGED <<scenario, entry, pc, pc2, now, t0, fut, futlog, fut2, futlog2, eff,
                   calls, par, called, escaped>>

\* The loop moves a due timer handle to the ready queue.
TimerFire ==
    /\ \E tm \in timers :
          /\ tm.when <= now
          /\ timers' = timers \ {tm}
          /\ ready' = Append(ready, Handle("timer", tm.task, 0))
    /\ UNCHANGED <<scenario, entry, pc, pc2, now, t0, fut, futlog, fut2, futlog2, eff,
                   tasks, calls, par, called, escaped, completed>>

\* sleep's timer callback: it resolves the sleep future unless that was
\* cancelled, which schedules the task's wakeup.
RunTimer ==
    /\ ready # <<>>
    /\ Head(ready).cb = "timer"
    /\ LET t == Head(ready).task
       IN IF tasks[t].st = "sleeping"
          THEN /\ tasks' = [tasks EXCEPT ![t].st = "woken"]
               /\ ready' = Append(Tail(ready), Step(t))
          ELSE /\ ready' = Tail(ready)
               /\ UNCHANGED tasks
    /\ UNCHANGED <<scenario, entry, pc, pc2, now, t0, fut, futlog, fut2, futlog2, eff,
                   timers, calls, par, called, escaped, completed>>

\* The loop runs future_to_box's done_cb; what it raises goes to the loop's
\* exception handler.
RunDoneCb ==
    /\ ready # <<>>
    /\ Head(ready).cb = "done_cb"
    /\ LET r == done_cb(World, Head(ready).task, Head(ready).box)
       IN /\ SetWorld(r.w)
          /\ escaped' = IF r.escaped = NoExc THEN escaped ELSE Append(escaped, r.escaped)
    /\ tasks' = [tasks EXCEPT ![Head(ready).task].notified = TRUE]
    /\ ready' = Tail(ready)
    /\ UNCHANGED <<scenario, entry, pc, pc2, now, t0, timers, completed>>

\* Task.cancel() by whoever holds the performer's box (box.asyncio_future);
\* the boxes of a parallel group's sub-effects stay inside the engine.  A
\* sleeping task has its sleep future cancelled, which drops the timer and
\* schedules the wakeup; otherwise the request waits for the step already
\* scheduled.
Cancel(t) ==
    /\ intent.kind # "Parallel"
    /\ tasks[t].st \in {"pending", "sleeping", "woken"}
    /\ ~tasks[t].must_cancel
    /\ IF tasks[t].st = "sleeping"
       THEN /\ tasks' = [tasks EXCEPT ![t].st = "woken", ![t].must_cancel = TRUE]
            /\ timers' = {tm \in timers : tm.task # t}
            /\ ready' = Append(ready, Step(t))
       ELSE /\ tasks' = [tasks EXCEPT ![t].must_cancel = TRUE]
            /\ UNCHANGED <<timers, ready>>
    /\ UNCHANGED <<scenario, entry, pc, pc2, now, t0, fut, futlog, fut2, futlog2, eff,
                   calls, par, called, escaped, completed>>

\* The clock advances.  It is followed while the loop has something to run or
\* to wait for, and always until the timers set have come due.
Tick ==
    /\ \/ now < MaxTime /\ (ready # <<>> \/ timers # {})
       \/ \E tm \in timers : tm.when > now
    /\ now' = now + 1
    /\ UNCHANGED <<scenario, entry, pc, pc2, t0, fut, futlog, fut2, futlog2, eff, tasks,
                   ready, timers, calls, par, called, escaped, completed>>

Loop == RunStep \/ TimerFire \/ RunTimer \/ RunDoneCb

Next ==
    \/ perform
    \/ perform_again
    \/ DirectCall
    \/ \E v \in Values : FuncSucceed(v)
    \/ \E x \in Errors : FuncFail(x)
    \/ \E v \in Values : FuncSucceedAgain(v)
    \/ \E x \in Errors : FuncFailAgain(x)
    \/ RunStep
    \/ TimerFire
    \/ RunTimer
    \/ RunDoneCb
    \/ \E t \in TaskIds : Cancel(t)
    \/ Tick

Spec == Init /\ [][Next]_vars

\* A running loop keeps running its callbacks and its clock keeps advancing.
FairInit == Init /\ NSub <= MaxFairSub
FairSpec == FairInit /\ [][Next]_vars /\ WF_vars(Loop) /\ WF_vars(Tick)

\* ================================================================= claims
Performed == mode = "perform" /\ pc = "running"
FirstCall(b) == calls[b][1]

\* C1: when the performer of a performed effect that has no continuations of
\* its own invokes box.succeed(v), the future perform returned is done with
\* result exactly v.
C1_SucceedResolvesFuture ==
    (Performed /\ callbacks = <<>> /\ calls[0] # <<>> /\ FirstCall(0).op = "succeed")
        => (fut.state = "result" /\ fut.result = FirstCall(0).arg)

C1_Witness ==
    /\ Performed /\ intent.kind = "Func" /\ callbacks = <<>>
    /\ calls[0] = <<[op |-> "succeed", arg |-> Str("a"), raised |-> NoExc]>>
    /\ fut.state = "result" /\ fut.result = Str("a")

\* C2: when the performer invokes box.fail((type, instance, traceback)), the
\* future perform returned is done, rejected, and the exception it holds (what
\* awaiting it raises) is that very instance.
C2_FailRejectsWithInstance ==
    (Performed /\ calls[0] # <<>> /\ FirstCall(0).op = "fail")
        => (fut.state = "exception" /\ fut.exception = FirstCall(0).arg.value)

C2_Witness ==
    /\ Performed /\ intent.kind = "Func"
    /\ calls[0] # <<>> /\ FirstCall(0).op = "fail"
    /\ FirstCall(0).arg = ExcInfo(Exc("ValueError", 1))
    /\ fut.state = "exception" /\ fut.exception = Exc("ValueError", 1)

\* C3: under a fair loop, every effect performed through decorated performers
\* resolves the future perform returned, awaited or not, whether the wrapped
\* function returns, raises or is cancelled; the future is written exactly
\* once, with a result or with an exception.
C3_ResolvesExactlyOnce ==
    /\ []((mode = "perform" /\ intent.kind # "Func")
            => /\ Len(futlog) <= 1
               /\ Len(futlog) = 1 => (futlog[1].ok /\ fut.state \in {"result", "exception"})
               /\ Done(fut) => Len(futlog) = 1)
    /\ ((Performed /\ intent.kind # "Func")
            ~> (fut.state \in {"result", "exception"} /\ Len(futlog) = 1))

C3_Witness ==
    /\ Performed /\ intent.kind = "Async"
    /\ tasks[1].st = "cancelled" /\ tasks[1].notified
    /\ fut.state = "exception" /\ fut.exception = CancelledError
    /\ Len(futlog) = 1

DelayCase == Performed /\ intent.kind = "Delay"
NotCancelled == ~tasks[1].must_cancel /\ tasks[1].st # "cancelled"

\* C8: a performed Delay(n) whose task nobody cancels: the future is not done
\* (and the effect's success callback not called) while fewer than n clock
\* units have passed since perform; when done it holds None and the callback
\* was called once, with None; and once n units have passed it does get done.
C8_DelaySemantics ==
    /\ []((DelayCase /\ NotCancelled)
            => /\ (now - t0 < intent.delay) => (~Done(fut) /\ called = <<>>)
               /\ Done(fut) => /\ fut.state = "result" /\ fut.result = None
                               /\ callbacks = <<"append">> => called = <<None>>)
    /\ ((DelayCase /\ now - t0 >= intent.delay) ~> (Done(fut) \/ ~NotCancelled))

C8_Witness ==
    /\ DelayCase /\ NotCancelled /\ intent.delay = MaxDelay
    /\ callbacks = <<"append">> /\ called = <<None>>
    /\ fut.state = "result" /\ fut.result = None
    /\ now - t0 = intent.delay

\* ------------------------------------------------------- parallel groups
ParCase == Performed /\ intent.kind = "Parallel"
Settled(t) == tasks[t].notified
Failed(t) == tasks[t].st \in {"failed", "cancelled"}
InFlight(t) == tasks[t].st \in {"pending", "sleeping", "woken"}
FailedAt == {k \in 1..Len(completed) : Failed(completed[k])}
FirstFailed == completed[CHOOSE k \in FailedAt : \A j \in FailedAt : k <= j]

\* C4: when every sub-effect of a parallel group has succeeded, the future
\* holds the list whose i-th element is the result of the i-th submitted
\* sub-effect, whatever the order in which they completed.
C4_OrderPreserved ==
    (ParCase /\ \A t \in Live : Settled(t) /\ tasks[t].st = "finished")
        => /\ fut.state = "result"
           /\ fut.result = List([t \in 1..NSub |-> PlanOf(t).val])

C4_Witness ==
    /\ ParCase /\ NSub = 2 /\ completed = <<2, 1>>
    /\ \A t \in Live : Settled(t) /\ tasks[t].st = "finished"
    /\ PlanOf(1).val = Str("a") /\ PlanOf(2).val = Str("b")
    /\ fut.result = List(<<Str("a"), Str("b")>>)

\* C5: as soon as the done callback of a failed sub-effect has run, the future
\* is rejected with a FirstError that carries the error and the index of a
\* failed sub-effect, also while other sub-effects are still in flight.
C5_FirstErrorAtOnce ==
    (ParCase /\ \E t \in Live : Failed(t) /\ Settled(t))
        => /\ fut.state = "exception"
           /\ fut.exception.cls = "FirstError"
           /\ fut.exception.index \in Live
           /\ Failed(fut.exception.index) /\ Settled(fut.exception.index)
           /\ fut.exception.exc_info = ExcInfo(tasks[fut.exception.index].exception)

C5_Witness ==
    /\ ParCase /\ NSub = 2
    /\ Failed(2) /\ Settled(2) /\ InFlight(1) /\ tasks[1].st = "sleeping"
    /\ fut.state = "exception" /\ fut.exception.index = 2

\* C6: the error a rejected parallel group reports is that of the sub-effect
\* whose failure completed first, not that of the failed sub-effect submitted
\* first.
C6_FirstCompletedFailure ==
    (ParCase /\ fut.state = "exception")
        => /\ FailedAt # {}
           /\ fut.exception.cls = "FirstError"
           /\ fut.exception.index = FirstFailed
           /\ fut.exception.exc_info = ExcInfo(tasks[FirstFailed].exception)

C6_Witness ==
    /\ ParCase /\ NSub = 2 /\ completed = <<2, 1>>
    /\ \A t \in Live : Failed(t) /\ Settled(t)
    /\ tasks[1].exception # tasks[2].exception
    /\ fut.exception.exc_info.value = tasks[2].exception
    /\ fut.state = "exception" /\ fut.exception.index = 2

\* C7: the box of the parallel performer is invoked at most once, succeed and
\* fail counted together, and exactly once when every sub-effect has completed.
C7_OneAggregateOutcome ==
    ParCase => /\ Len(calls[0]) <= 1
               /\ (\A t \in Live : Settled(t)) => Len(calls[0]) = 1

C7_Witness ==
    /\ ParCase /\ NSub = 2
    /\ \A t \in Live : Failed(t) /\ Settled(t)
    /\ Len(calls[0]) = 1 /\ calls[0][1].op = "fail"

\* ------------------------------------------------------------ future_to_box
\* C9: the binding future_to_box makes invokes succeed and fail on its box at
\* most once, counted together, also when the box's succeed raises.
C9_AtMostOneInvocation ==
    \A t \in Live : Len(calls[BoxOf(t)]) <= 1

\* C10: what the box's succeed or fail raises while done_cb invokes it is
\* turned into a fail of that box, and never leaves done_cb.
C10_BoxExceptionsCaptured ==
    /\ escaped = <<>>
    /\ \A t \in Live : \A k \in 1..Len(calls[BoxOf(t)]) :
          LET c == calls[BoxOf(t)]
          IN c[k].raised # NoExc
                => /\ k < Len(c)
                   /\ c[k + 1].op = "fail"
                   /\ c[k + 1].arg = ExcInfo(c[k].raised)

\* ------------------------------------------------------------------ perform
\* C11: perform calls the engine exactly once and returns at once, its call
\* running no task step and no clock tick; and while the top-level performer
\* holds its box without having invoked succeed or fail on it, the future
\* perform returned is pending.
C11_PendingUntilBoxInvoked ==
    /\ [](Performed => engine_runs = IF pc2 = "running" THEN 2 ELSE 1)
    /\ []((Performed /\ calls[0] = <<>>) => fut.state = "pending")
    /\ [][perform => /\ pc' = "running" /\ now' = now /\ timers' = timers
                     /\ completed' = completed
                     /\ \A t \in Live : tasks'[t].st = "pending"
                     /\ ready' = ready \o [i \in 1..Cardinality(Live) |-> Step(i)]]_vars

C11_Witness ==
    /\ Performed /\ intent.kind = "Delay" /\ engine_runs = 1
    /\ tasks[1].st = "sleeping" /\ now > t0
    /\ calls[0] = <<>> /\ fut.state = "pending"

\* ---------------------------------------------------------------- performer
\* C12: a wrapper called with (a1, ..., ak, box) and keyword arguments K calls
\* the wrapped function with exactly (a1, ..., ak) and K, binds the task to the
\* last positional argument and to nothing else, and invokes no other box it
\* was passed.
C12_ArgumentsPassedThrough ==
    \A t \in Live : tasks[t].st # "none"
        => /\ tasks[t].args \o <<BoxRef(BoxOf(t))>> = ArgsOf(t)
           /\ tasks[t].kwargs = KwargsOf(t)
           /\ tasks[t].cbs = <<ArgsOf(t)[Len(ArgsOf(t))].id>>
           /\ \A b \in BoxIds : (mode = "direct" /\ b # 0) => calls[b] = <<>>

C12_Witness ==
    /\ mode = "direct" /\ call_args = <<BoxRef(1), Dispatcher>>
    /\ call_kwargs = {[key |-> "extra", val |-> Str("extra val")]}
    /\ tasks[1].args = call_args /\ tasks[1].kwargs = call_kwargs
    /\ tasks[1].notified /\ Len(calls[0]) = 1 /\ calls[1] = <<>>

\* C13: when the task cannot be scheduled, the call of the decorated performer
\* raises that error to its caller; no task exists, nothing is queued, no done
\* callback is bound and the box is never invoked.
C13_SchedulingFailurePropagates ==
    (mode = "direct" /\ pc = "running" /\ ~loop_ok)
        => /\ propagated = SchedulingError
           /\ \A t \in TaskIds : tasks[t] = NoTask
           /\ ready = <<>> /\ timers = {}
           /\ \A b \in BoxIds : calls[b] = <<>>

C13_Witness ==
    /\ mode = "direct" /\ pc = "running" /\ ~loop_ok
    /\ intent.kind = "Delay" /\ call_args = <<Dispatcher, intent>>
    /\ propagated = SchedulingError /\ calls[0] = <<>> /\ tasks[1].cbs = <<>>

\* What fut.result() raises for a task that ended without a result.
ErrorOf(t) == IF tasks[t].st = "cancelled" THEN CancelledError ELSE tasks[t].exception

\* C14: when the task behind a decorated performer ends cancelled or with an
\* exception (the sleep of a Delay is such a task), its box gets exactly one
\* invocation, fail with the exc_info of that error, and never succeed; the
\* future perform returned is then rejected with that error; and under a fair
\* loop a cancel request always ends in that rejection.
C14_CancellationIsFailure ==
    /\ [](\A t \in Live : (Failed(t) /\ Settled(t))
            => /\ Len(calls[BoxOf(t)]) = 1
               /\ calls[BoxOf(t)][1].op = "fail"
               /\ calls[BoxOf(t)][1].arg = ExcInfo(ErrorOf(t)))
    /\ []((Performed /\ intent.kind \in {"Delay", "Async"} /\ Failed(1) /\ Settled(1))
            => (fut.state = "exception" /\ fut.exception = ErrorOf(1)))
    /\ ((Performed /\ intent.kind \in {"Delay", "Async"} /\ tasks[1].must_cancel)
            ~> (fut.state = "exception" /\ fut.exception = CancelledError))

C14_Witness ==
    /\ DelayCase /\ intent.delay = MaxDelay /\ now - t0 < intent.delay
    /\ tasks[1].st = "cancelled" /\ Settled(1)
    /\ calls[0] = <<[op |-> "fail", arg |-> ExcInfo(CancelledError), raised |-> NoExc]>>
    /\ fut.state = "exception" /\ fut.exception = CancelledError

\* C15: for a task bound to a box by future_to_box, once its done callback has
\* run: a task that finished with value v had succeed(v) invoked on the box and
\* fail not invoked; a task that ended with an error had fail invoked with the
\* exc_info triple of that error (type, the instance itself, traceback) and
\* succeed not invoked.
C15_OutcomeDelivered ==
    \A t \in Live : Settled(t)
        => LET c == calls[BoxOf(t)]
           IN /\ c # <<>>
              /\ tasks[t].st = "finished"
                    => /\ c[1].op = "succeed" /\ c[1].arg = tasks[t].result
                       /\ \A k \in 1..Len(c) : c[k].op # "fail"
              /\ Failed(t)
                    => /\ c[1].op = "fail" /\ c[1].arg = ExcInfo(ErrorOf(t))
                       /\ c[1].arg.value = ErrorOf(t)
                       /\ \A k \in 1..Len(c) : c[k].op # "succeed"

\* C16: the call of a decorated performer invokes neither succeed nor fail on
\* its box, also when the wrapped function never suspends; every invocation of
\* the box is made in a later loop callback, the done callback of its task,
\* which runs when the task has already completed.
C16_BoxInvokedInLaterTurn ==
    /\ [][(pc = "start" /\ pc' = "running")
            => \A t \in Live : calls'[BoxOf(t)] = <<>> /\ ~tasks'[t].notified]_vars
    /\ [][\A t \in Live : calls'[BoxOf(t)] # calls[BoxOf(t)]
            => /\ pc = "running"
               /\ tasks[t].st \in {"finished", "failed", "cancelled"}
               /\ t \in {completed[k] : k \in 1..Len(completed)}
               /\ ready # <<>> /\ Head(ready) = Handle("done_cb", t, BoxOf(t))]_vars

C16_Witness ==
    /\ intent.kind = "Async" /\ ~intent.plan.awaits /\ pc = "running"
    /\ tasks[1].st = "finished" /\ Settled(1)
    /\ Len(calls[0]) = 1 /\ calls[0][1].op = "succeed"

PerformedTwice == Performed /\ pc2 = "running"

\* C18: no call of perform changes the intent or the callbacks of the effect
\* it is given; a second perform call on the same effect has a task and a
\* done-callback binding of its own; and a step that changes one of the two
\* futures is an invocation of that call's own box, which leaves the other
\* future and the other box as they were.
C18_PerformsAreIndependent ==
    /\ [][intent' = intent /\ callbacks' = callbacks]_vars
    /\ []((PerformedTwice /\ intent.kind = "Delay")
            => /\ tasks[1].st # "none" /\ tasks[1].cbs = <<0>>
               /\ tasks[Again].st # "none" /\ tasks[Again].cbs = <<Again>>)
    /\ [](PerformedTwice
            => /\ Done(fut) <=> calls[0] # <<>>
               /\ Done(fut2) <=> calls[Again] # <<>>)
    /\ [][(pc2 = "running" /\ fut' # fut)
            => (fut2' = fut2 /\ calls'[Again] = calls[Again] /\ calls'[0] # calls[0])]_vars
    /\ [][(pc2 = "running" /\ fut2' # fut2)
            => (fut' = fut /\ calls'[0] = calls[0] /\ calls'[Again] # calls[Again])]_vars

C18_Witness ==
    /\ PerformedTwice /\ intent.kind = "Delay" /\ intent.delay = MaxDelay
    /\ tasks[1].st = "cancelled" /\ Settled(1)
    /\ tasks[Again].st = "finished" /\ Settled(Again)
    /\ fut.state = "exception" /\ fut.exception = CancelledError
    /\ fut2.state = "result" /\ fut2.result = None
    /\ Len(calls[0]) = 1 /\ Len(calls[Again]) = 1

====
